---- MODULE Spec2Model ----
(***************************************************************************)
(* Extension discovery and path probing of setup.py: the extension list    *)
(* of PyBuildExt (backend.py), the macOS SDK root cache, the compiler flag *)
(* store and add_dir_to_list (python.py), find_file (python2.py) and the   *)
(* tail of find_library_file (local.py).                                   *)
(*                                                                         *)
(* Python strings are sequences of one-character strings.  A call's        *)
(* outcome is a record: [kind |-> "return", val |-> v], [kind |-> "None"]  *)
(* for a return of None, [kind |-> "raise", exc |-> e] for an exception.   *)
(***************************************************************************)
EXTENDS Integers, Sequences, FiniteSets, TLC

VARIABLES
    extensions,            \* PyBuildExt.extensions: sequence of [name, id]
    DISABLED_MODULE_LIST,  \* the global list of disabled module names
    created,               \* number of descriptors constructed so far
    config_vars,           \* sysconfig.get_config_vars(): name -> string
    MACOS_SDK_ROOT,        \* module global, None until resolved
    MACOS_SDK_SPECIFIED,   \* module global, None until resolved
    default_sysroot,       \* what _osx_support._default_sysroot(CC) answers
    probes,                \* invocations of _osx_support._default_sysroot
    root_writes,           \* assignments to MACOS_SDK_ROOT
    sdk_returns,           \* values returned by macosx_sdk_root(), in order
    MACOS,                 \* HOST_PLATFORM == 'darwin'
    sdk_dirs,              \* the directories is_macosx_sdk_path() accepts
    files,                 \* the file system: the files that exist
    dirs_on_disk,          \* the file system: the directories that exist
    cwd,                   \* os.getcwd()
    dirlist,               \* the list add_dir_to_list() works on
    srcdir,                \* PyBuildExt.srcdir
    filename,              \* the file a search is asked for
    std_dirs,              \* the standard directories a search is given
    paths,                 \* the additional directories a search is given
    result,                \* the path compiler.find_library_file() found
    last                   \* the last call: its name, inputs and outcome

extVars == <<extensions, DISABLED_MODULE_LIST, created>>

sdkVars == <<MACOS_SDK_ROOT, MACOS_SDK_SPECIFIED, default_sysroot, probes,
             root_writes, sdk_returns>>

pathVars == <<MACOS, sdk_dirs, files, dirs_on_disk, cwd, dirlist, srcdir>>

searchVars == <<filename, std_dirs, paths, result>>

vars == <<extVars, config_vars, sdkVars, pathVars, searchVars, last>>

(***************************************************************************)
(* Bounds                                                                  *)
(***************************************************************************)
MaxExt == 4        \* descriptors constructed in one run

MaxFlagLen == 3    \* lexemes in a configuration variable at start

MaxSdkCalls == 3   \* calls of macosx_sdk_root() in one run

MaxStoredLen == 5  \* lexemes in a configuration variable after augmentation

MaxDirs == 2       \* entries of a directory list passed to a call

MaxPathLen == 3    \* lexemes in the srcdir configuration variable

(***************************************************************************)
(* Generic helpers                                                         *)
(***************************************************************************)
Returned(v) == [kind |-> "return", val |-> v]

ReturnedNone == [kind |-> "None"]

Raised(e) == [kind |-> "raise", exc |-> e]

\* list.pop(i) for a 1-based index i: the list without its i-th element
Pop(s, i) == SubSeq(s, 1, i - 1) \o SubSeq(s, i + 1, Len(s))

\* list.insert(i, x) for a 0-based Python index 0 <= i <= len(s)
Insert(s, i, x) == SubSeq(s, 1, i) \o <<x>> \o SubSeq(s, i + 1, Len(s))

\* an optional value: Python's None, or a value
None == [some |-> FALSE]

Some(v) == [some |-> TRUE, val |-> v]

\* all strings of at most n lexemes of the alphabet A
Strings(A, n) == UNION {[1..k -> A] : k \in 0..n}

Max(S) == CHOOSE x \in S : \A y \in S : y <= x

Min(S) == CHOOSE x \in S : \A y \in S : x <= y

(***************************************************************************)
(* backend.py: PyBuildExt.add, PyBuildExt.remove_disabled                  *)
(***************************************************************************)
ExtNames == {"_socket", "_tkinter", "_ctypes"}

\* line 28-29: [ext for ext in self.extensions if ext.name not in DISABLED];
\* the list of disabled names is read by "in" only and is kept as a set
FilterDisabled(exts, disabled) ==
    LET keep(e) == e.name \notin disabled
    IN  SelectSeq(exts, keep)

\* a dict that keeps the first index of a repeated name
ExtMapFirst(exts) ==
    [n \in {exts[i].name : i \in DOMAIN exts} |->
        Min({i \in DOMAIN exts : exts[i].name = n})]

\* line 31: dict((ext.name, i) for i, ext in enumerate(extensions)); a later
\* pair overwrites an earlier one, so a name maps to its last index
ExtMap(exts) ==
    [n \in {exts[i].name : i \in DOMAIN exts} |->
        Max({i \in DOMAIN exts : exts[i].name = n})]

\* the append without the pop
MoveCtypesNoPop(exts) ==
    LET ext_map == ExtMap(exts)
    IN  IF "_ctypes" \in DOMAIN ext_map
        THEN exts \o <<exts[ext_map["_ctypes"]]>>
        ELSE exts

\* "_ctypes" moved to the front instead of the end
MoveCtypesFront(exts) ==
    LET ext_map == ExtMap(exts)
    IN  IF "_ctypes" \in DOMAIN ext_map
        THEN <<exts[ext_map["_ctypes"]]>> \o Pop(exts, ext_map["_ctypes"])
        ELSE exts

\* line 32-34: move "_ctypes" to the end
MoveCtypes(exts) ==
    LET ext_map == ExtMap(exts)
    IN  IF "_ctypes" \in DOMAIN ext_map
        THEN Pop(exts, ext_map["_ctypes"]) \o <<exts[ext_map["_ctypes"]]>>
        ELSE exts

\* line 26-35: the value remove_disabled() assigns to self.extensions
RemoveDisabledResult(exts, disabled) ==
    MoveCtypes(FilterDisabled(exts, disabled))

ExtIdle ==
    /\ extensions = <<>>
    /\ DISABLED_MODULE_LIST = {}
    /\ created = 0

NoConfig == config_vars = <<>>

SdkUnresolved ==
    /\ MACOS_SDK_ROOT = None
    /\ MACOS_SDK_SPECIFIED = None
    /\ probes = 0
    /\ root_writes = 0
    /\ sdk_returns = <<>>

SdkIdle == SdkUnresolved /\ default_sysroot = <<"/">>

NoSearch ==
    /\ filename = <<>>
    /\ std_dirs = <<>>
    /\ paths = <<>>
    /\ result = <<>>

PathIdle ==
    /\ NoSearch
    /\ MACOS = FALSE
    /\ sdk_dirs = {}
    /\ files = {}
    /\ dirs_on_disk = {}
    /\ cwd = <<"/">>
    /\ dirlist = <<>>
    /\ srcdir = None

ExtInit ==
    /\ extensions = <<>>
    /\ DISABLED_MODULE_LIST \in SUBSET ExtNames
    /\ created = 0
    /\ last = [op |-> "init"]
    /\ NoConfig
    /\ SdkIdle
    /\ PathIdle

\* line 16-17: a freshly constructed descriptor is appended
add ==
    /\ created < MaxExt
    /\ \E n \in ExtNames :
        LET ext == [name |-> n, id |-> created + 1]
        IN  /\ extensions' = Append(extensions, ext)
            /\ last' = [op |-> "add", before |-> extensions]
    /\ created' = created + 1
    /\ UNCHANGED <<DISABLED_MODULE_LIST, config_vars, sdkVars, pathVars, searchVars>>

remove_disabled ==
    /\ extensions' = RemoveDisabledResult(extensions, DISABLED_MODULE_LIST)
    /\ last' = [op |-> "remove_disabled", before |-> extensions]
    /\ UNCHANGED <<DISABLED_MODULE_LIST, created, config_vars, sdkVars, pathVars, searchVars>>

ExtNext == add \/ remove_disabled

SpecExt == ExtInit /\ [][ExtNext]_vars

(***************************************************************************)
(* Claims about the extension list                                         *)
(***************************************************************************)
Elems(s) == {s[i] : i \in DOMAIN s}

Count(n, exts) == Cardinality({i \in DOMAIN exts : exts[i].name = n})

DistinctNames(exts) == \A n \in ExtNames : Count(n, exts) <= 1

NotCtypes(e) == e.name # "_ctypes"

AfterRemoveDisabled == last.op = "remove_disabled"

Survivors(exts) == {i \in DOMAIN exts : exts[i].name \notin DISABLED_MODULE_LIST}

\* C1: after remove_disabled() no descriptor of the list has a disabled
\* name, the descriptors not named "_ctypes" are exactly the enabled ones of
\* the old list in their old order, and a surviving "_ctypes" is last; with
\* no surviving "_ctypes" the result is the plain filtered list.
C1_FilterAndReorder ==
    AfterRemoveDisabled =>
        LET b == last.before
            enabledOther(e) == e.name \notin DISABLED_MODULE_LIST /\ NotCtypes(e)
            enabled(e) == e.name \notin DISABLED_MODULE_LIST
            ctypesSurvives == \E i \in Survivors(b) : b[i].name = "_ctypes"
        IN  /\ \A i \in DOMAIN extensions :
                    extensions[i].name \notin DISABLED_MODULE_LIST
            /\ SelectSeq(extensions, NotCtypes) = SelectSeq(b, enabledOther)
            /\ ctypesSurvives =>
                    /\ extensions # <<>>
                    /\ extensions[Len(extensions)].name = "_ctypes"
            /\ ~ctypesSurvives => extensions = SelectSeq(b, enabled)

\* a disabled descriptor was dropped and "_ctypes" moved from the front to
\* the end, past another descriptor
C1_Witness ==
    /\ AfterRemoveDisabled
    /\ Len(last.before) >= 3
    /\ last.before[1].name = "_ctypes"
    /\ Len(extensions) >= 2
    /\ Len(extensions) < Len(last.before)
    /\ extensions[Len(extensions)] = last.before[1]

\* C6 as stated: after add() calls followed by remove_disabled() the
\* extension names are pairwise distinct.
C6_NamesUniqueAfterFilter ==
    AfterRemoveDisabled => DistinctNames(extensions)

\* C6 amended: remove_disabled() never raises the number of descriptors
\* that carry a name, so names that were pairwise distinct before it are
\* pairwise distinct after it.
C6_FilterKeepsNamesUnique ==
    AfterRemoveDisabled =>
        /\ \A n \in ExtNames : Count(n, extensions) <= Count(n, last.before)
        /\ DistinctNames(last.before) => DistinctNames(extensions)

\* three descriptors with distinct names went through remove_disabled(),
\* "_ctypes" moving from the front to the end
C6_Witness ==
    /\ AfterRemoveDisabled
    /\ DistinctNames(last.before)
    /\ Len(last.before) = 3
    /\ last.before[1].name = "_ctypes"
    /\ Len(extensions) = 3

\* no descriptor lost, none duplicated: the list after remove_disabled() is
\* a permutation of the old list's descriptors with an enabled name
C10_Permutation ==
    AfterRemoveDisabled =>
        /\ Elems(extensions) = {last.before[i] : i \in Survivors(last.before)}
        /\ Len(extensions) = Cardinality(Survivors(last.before))

\* a remove_disabled() step taken right after a remove_disabled() step
C10_SecondCallNoChange ==
    (AfterRemoveDisabled /\ remove_disabled) => extensions' = extensions

\* C10: the list after remove_disabled() is a permutation of the old
\* list's descriptors with an enabled name (none lost, none duplicated),
\* repeated names and several "_ctypes" included, and a remove_disabled()
\* that directly follows a remove_disabled() leaves the list as it is.
C10_PermutationIdempotent ==
    [](C10_Permutation) /\ [][C10_SecondCallNoChange]_vars

\* the second of two remove_disabled() calls has run on a list that holds
\* two "_ctypes" descriptors and a third one between them
C10_Witness ==
    /\ AfterRemoveDisabled
    /\ last.before = extensions
    /\ Count("_ctypes", extensions) = 2
    /\ Len(extensions) >= 3
    /\ extensions[1].name = "_ctypes"
    /\ created > Len(extensions)

(***************************************************************************)
(* python.py: macosx_sdk_root, macosx_sdk_specified                        *)
(*                                                                         *)
(* A flags string is a sequence of lexemes: the text "-isysroot", a blank, *)
(* or one other character.  No run of the other lexemes spells             *)
(* "-isysroot", so the lexeme stands for every occurrence of that text.    *)
(***************************************************************************)
ISYSROOT == "-isysroot"

Blank == " "

FlagLexemes == {ISYSROOT, Blank, "/", "s"}

\* sysconfig.get_config_var(name): None for a variable the store lacks
get_config_var(name) ==
    IF name \in DOMAIN config_vars THEN Some(config_vars[name]) ELSE None

\* line 175: the pattern -isysroot\s*(\S+) matches at position i when the
\* lexeme there is "-isysroot" and a non-blank follows the blanks after it
MatchesAt(text, i) ==
    /\ text[i] = ISYSROOT
    /\ \E j \in (i + 1)..Len(text) :
        /\ text[j] # Blank
        /\ \A k \in (i + 1)..(j - 1) : text[k] = Blank

\* group(1) of the match at i: the longest run of non-blanks after the blanks
Group1(text, i) ==
    LET j == Min({x \in (i + 1)..Len(text) : text[x] # Blank})
        k == Max({x \in j..Len(text) : \A y \in j..x : text[y] # Blank})
    IN  SubSeq(text, j, k)

\* line 175: re.search, the leftmost match or None
SearchIsysroot(text) ==
    LET hits == {i \in DOMAIN text : MatchesAt(text, i)}
    IN  IF hits = {} THEN None ELSE Some(Group1(text, Min(hits)))

\* Python truth value of an optional string / an optional boolean
TruthyStr(x) == x.some /\ x.val # <<>>

TruthyBool(x) == x.some /\ x.val

\* the module globals of the SDK resolver, as one record
SdkGlobals ==
    [root |-> MACOS_SDK_ROOT, specified |-> MACOS_SDK_SPECIFIED,
     probes |-> probes, writes |-> root_writes, returns |-> sdk_returns]

\* every -isysroot counts as an explicit SDK, "/" included
SpecifiedAlways(root) == TRUE

\* line 178: MACOS_SDK_SPECIFIED = MACOS_SDK_ROOT != '/'
SpecifiedFor(root) == root # <<"/">>

\* line 174-184: the resolution proper, from CFLAGS or from the compiler
ResolveSdk(g, cflags, dflt) ==
    LET m == SearchIsysroot(cflags)
    IN  IF m.some
        THEN [g EXCEPT !.root = Some(m.val),
                       !.specified = Some(SpecifiedFor(m.val)),
                       !.writes = @ + 1,
                       !.returns = Append(@, m.val)]
        ELSE [g EXCEPT !.root = Some(dflt),
                       !.specified = Some(FALSE),
                       !.probes = @ + 1,
                       !.writes = @ + 1,
                       !.returns = Append(@, dflt)]

\* the resolver without its cache test
SdkRootUncached(g, cflags, dflt) == ResolveSdk(g, cflags, dflt)

\* line 157-184: macosx_sdk_root(); the globals after the call, the value
\* returned being the last of returns
SdkRootCall(g, cflags, dflt) ==
    IF TruthyStr(g.root)
    THEN [g EXCEPT !.returns = Append(@, g.root.val)]
    ELSE ResolveSdk(g, cflags, dflt)

SetSdkGlobals(g) ==
    /\ MACOS_SDK_ROOT' = g.root
    /\ MACOS_SDK_SPECIFIED' = g.specified
    /\ probes' = g.probes
    /\ root_writes' = g.writes
    /\ sdk_returns' = g.returns

\* CFLAGS is a string (the Makefile of every build sets it) and the
\* compiler's default sysroot is '/' or the path of an SDK, never empty
SdkInit ==
    /\ ExtIdle
    /\ PathIdle
    /\ config_vars \in [{"CFLAGS"} -> Strings(FlagLexemes, MaxFlagLen)]
    /\ default_sysroot \in {<<"/">>, <<"/", "s">>}
    /\ SdkUnresolved
    /\ last = [op |-> "init"]

macosx_sdk_root ==
    /\ Len(sdk_returns) < MaxSdkCalls
    /\ LET g == SdkRootCall(SdkGlobals, config_vars["CFLAGS"], default_sysroot)
       IN  /\ SetSdkGlobals(g)
           /\ last' = [op |-> "macosx_sdk_root",
                       ret |-> Returned(g.returns[Len(g.returns)])]
    /\ UNCHANGED <<extVars, config_vars, default_sysroot, pathVars, searchVars>>

\* line 187-205
macosx_sdk_specified ==
    /\ Len(sdk_returns) < MaxSdkCalls
    /\ IF TruthyBool(MACOS_SDK_SPECIFIED)
       THEN /\ last' = [op |-> "macosx_sdk_specified",
                        ret |-> Returned(MACOS_SDK_SPECIFIED.val)]
            /\ UNCHANGED sdkVars
       ELSE LET g == SdkRootCall(SdkGlobals, config_vars["CFLAGS"],
                                 default_sysroot)
            IN  /\ SetSdkGlobals(g)
                /\ last' = [op |-> "macosx_sdk_specified",
                            ret |-> Returned(g.specified.val)]
                /\ UNCHANGED default_sysroot
    /\ UNCHANGED <<extVars, config_vars, pathVars, searchVars>>

SdkNext == macosx_sdk_root \/ macosx_sdk_specified

SpecSdk == SdkInit /\ [][SdkNext]_vars

(***************************************************************************)
(* Claims about the SDK root                                               *)
(***************************************************************************)
\* C3: every macosx_sdk_root() call returns what the first one returned, the
\* compiler is asked for its default sysroot at most once, and
\* MACOS_SDK_ROOT is assigned at most once.
C3_SdkRootIdempotent ==
    /\ \A i \in DOMAIN sdk_returns : sdk_returns[i] = sdk_returns[1]
    /\ probes <= 1
    /\ root_writes <= 1

\* three calls have returned and the first of them asked the compiler
C3_Witness ==
    /\ Len(sdk_returns) >= 3
    /\ probes = 1
    /\ root_writes = 1
    /\ last.op = "macosx_sdk_specified"

\* the -isysroot option of a flags string, stated on its own: some
\* "-isysroot" is followed, after blanks only, by a non-blank lexeme
IsysrootAt(text) ==
    {i \in DOMAIN text :
        /\ text[i] = ISYSROOT
        /\ \E j \in (i + 1)..Len(text) :
            text[j] # Blank /\ \A k \in (i + 1)..(j - 1) : text[k] = Blank}

HasIsysroot(text) == IsysrootAt(text) # {}

\* path is the blank-free token that follows the first such "-isysroot"
IsIsysrootPath(text, path) ==
    LET i == Min(IsysrootAt(text))
    IN  \E j \in (i + 1)..Len(text) :
            /\ \A k \in (i + 1)..(j - 1) : text[k] = Blank
            /\ path # <<>>
            /\ j + Len(path) - 1 <= Len(text)
            /\ SubSeq(text, j, j + Len(path) - 1) = path
            /\ \A k \in DOMAIN path : path[k] # Blank
            /\ j + Len(path) <= Len(text) => text[j + Len(path)] = Blank

SdkResolved == sdk_returns # <<>>

CFLAGS == config_vars["CFLAGS"]

\* C4 as stated: with an -isysroot <path> in CFLAGS the root is that path
\* and the SDK counts as explicitly specified, macosx_sdk_specified()
\* returning True; without one the root is the compiler's and the SDK
\* counts as not specified.
C4_IsysrootMeansSpecified ==
    SdkResolved =>
        IF HasIsysroot(CFLAGS)
        THEN /\ IsIsysrootPath(CFLAGS, MACOS_SDK_ROOT.val)
             /\ last.ret.val = IF last.op = "macosx_sdk_root"
                               THEN MACOS_SDK_ROOT.val ELSE TRUE
             /\ MACOS_SDK_SPECIFIED = Some(TRUE)
        ELSE /\ MACOS_SDK_ROOT = Some(default_sysroot)
             /\ probes = 1
             /\ MACOS_SDK_SPECIFIED = Some(FALSE)

\* C4 amended: as C4, except that the path "/" counts as not specified:
\* after -isysroot / the flag is False and macosx_sdk_specified() returns
\* False.
C4_IsysrootSpecifiedUnlessSlash ==
    SdkResolved =>
        IF HasIsysroot(CFLAGS)
        THEN /\ IsIsysrootPath(CFLAGS, MACOS_SDK_ROOT.val)
             /\ probes = 0
             /\ MACOS_SDK_SPECIFIED = Some(MACOS_SDK_ROOT.val # <<"/">>)
             /\ last.ret.val = IF last.op = "macosx_sdk_root"
                               THEN MACOS_SDK_ROOT.val
                               ELSE MACOS_SDK_ROOT.val # <<"/">>
        ELSE /\ MACOS_SDK_ROOT = Some(default_sysroot)
             /\ probes = 1
             /\ MACOS_SDK_SPECIFIED = Some(FALSE)
             /\ last.ret.val = IF last.op = "macosx_sdk_root"
                               THEN default_sysroot ELSE FALSE

\* macosx_sdk_specified() has answered True for a CFLAGS with -isysroot /s
C4_Witness ==
    /\ last.op = "macosx_sdk_specified"
    /\ HasIsysroot(CFLAGS)
    /\ MACOS_SDK_ROOT = Some(<<"/", "s">>)
    /\ last.ret = Returned(TRUE)

(***************************************************************************)
(* python.py: set_compiler_flags                                           *)
(***************************************************************************)
FlagVars == {"CFLAGS", "PY_CFLAGS_NODIST"}

\* the names a caller may pass: the two above and one the store lacks
FlagVarArgs == FlagVars \cup {"PY_LDFLAGS_NODIST"}

\* the join that leaves the separator out when the added side is empty
JoinFlagsSkipEmpty(flags, py_flags_nodist) ==
    IF py_flags_nodist = <<>> THEN flags
    ELSE flags \o <<Blank>> \o py_flags_nodist

\* line 111: flags + ' ' + py_flags_nodist
JoinFlags(flags, py_flags_nodist) == flags \o <<Blank>> \o py_flags_nodist

FlagsInit ==
    /\ ExtIdle
    /\ SdkIdle
    /\ PathIdle
    /\ config_vars \in [FlagVars -> Strings({Blank, "s"}, MaxFlagLen)]
    /\ last = [op |-> "init"]

\* line 108-111; None + ' ' raises TypeError before the store is written
set_compiler_flags ==
    /\ \E compiler_flags \in FlagVarArgs, compiler_py_flags_nodist \in FlagVarArgs :
        LET flags == get_config_var(compiler_flags)
            py_flags_nodist == get_config_var(compiler_py_flags_nodist)
            call == [op |-> "set_compiler_flags", target |-> compiler_flags,
                     nodist |-> compiler_py_flags_nodist, before |-> config_vars]
        IN  IF flags.some /\ py_flags_nodist.some
            THEN /\ Len(JoinFlags(flags.val, py_flags_nodist.val)) <= MaxStoredLen
                 /\ config_vars' =
                        [config_vars EXCEPT ![compiler_flags] =
                            JoinFlags(flags.val, py_flags_nodist.val)]
                 /\ last' = call @@ [ret |-> ReturnedNone]
            ELSE /\ UNCHANGED config_vars
                 /\ last' = call @@ [ret |-> Raised("TypeError")]
    /\ UNCHANGED <<extVars, sdkVars, pathVars, searchVars>>

FlagsNext == set_compiler_flags

SpecFlags == FlagsInit /\ [][FlagsNext]_vars

(***************************************************************************)
(* Claims about the compiler flags                                         *)
(***************************************************************************)
FlagsAugmented == last.op = "set_compiler_flags" /\ last.ret = ReturnedNone

\* C5: after set_compiler_flags(target, nodist) the target variable holds
\* its old value, one blank, and the nodist value, in that order and whole,
\* also when one of them is empty; no other variable has changed.  A second
\* call does the same to the values it finds.
C5_FlagsJoinedBySpace ==
    FlagsAugmented =>
        LET old == last.before[last.target]
            nodist == last.before[last.nodist]
            new == config_vars[last.target]
        IN  /\ Len(new) = Len(old) + 1 + Len(nodist)
            /\ SubSeq(new, 1, Len(old)) = old
            /\ new[Len(old) + 1] = Blank
            /\ SubSeq(new, Len(old) + 2, Len(new)) = nodist
            /\ DOMAIN config_vars = DOMAIN last.before
            /\ \A v \in DOMAIN config_vars \ {last.target} :
                    config_vars[v] = last.before[v]

\* a call with an empty nodist value, on a target an earlier call has
\* already augmented
C5_Witness ==
    /\ FlagsAugmented
    /\ last.before[last.nodist] = <<>>
    /\ last.target # last.nodist
    /\ last.before[last.target] = <<"s", Blank>>
    /\ config_vars[last.target] = <<"s", Blank, Blank>>

(***************************************************************************)
(* os.path on POSIX, as python.py, python2.py, local.py and backend.py use *)
(* it.  A path is a string whose lexemes are the separator "/" and other   *)
(* characters.                                                             *)
(***************************************************************************)
Sep == "/"

Dot == <<".">>

DotDot == <<".", ".">>

\* os.path.isabs
IsAbs(path) == path # <<>> /\ path[1] = Sep

\* os.path.join(a, b)
Join2(a, b) ==
    IF IsAbs(b) THEN b
    ELSE IF a = <<>> \/ a[Len(a)] = Sep THEN a \o b
    ELSE a \o <<Sep>> \o b

\* os.path.join(a, b, c)
Join3(a, b, c) == Join2(Join2(a, b), c)

\* p.rstrip(os.sep): every trailing separator goes
RStripSep(p) == SubSeq(p, 1, Max({0} \cup {i \in DOMAIN p : p[i] # Sep}))

\* p[1:]
Tail1(p) == SubSeq(p, 2, Len(p))

\* os.path.dirname
Dirname(p) ==
    LET i == Max({0} \cup {k \in DOMAIN p : p[k] = Sep})
        head == SubSeq(p, 1, i)
    IN  IF head # <<>> /\ \E k \in DOMAIN head : head[k] # Sep
        THEN RStripSep(head)
        ELSE head

\* p.split('/')
RECURSIVE SplitSep(_)
SplitSep(p) ==
    LET seps == {k \in DOMAIN p : p[k] = Sep}
    IN  IF seps = {} THEN <<p>>
        ELSE <<SubSeq(p, 1, Min(seps) - 1)>>
                 \o SplitSep(SubSeq(p, Min(seps) + 1, Len(p)))

\* '/'.join(comps)
RECURSIVE JoinSep(_)
JoinSep(comps) ==
    IF comps = <<>> THEN <<>>
    ELSE IF Len(comps) = 1 THEN comps[1]
    ELSE comps[1] \o <<Sep>> \o JoinSep(Tail(comps))

\* the component loop of os.path.normpath
RECURSIVE NormComps(_, _, _)
NormComps(comps, new_comps, initial_slashes) ==
    IF comps = <<>> THEN new_comps
    ELSE LET comp == Head(comps)
         IN  IF comp = <<>> \/ comp = Dot
             THEN NormComps(Tail(comps), new_comps, initial_slashes)
             ELSE IF \/ comp # DotDot
                     \/ (initial_slashes = 0 /\ new_comps = <<>>)
                     \/ (new_comps # <<>> /\ new_comps[Len(new_comps)] = DotDot)
             THEN NormComps(Tail(comps), Append(new_comps, comp), initial_slashes)
             ELSE IF new_comps # <<>>
             THEN NormComps(Tail(comps), SubSeq(new_comps, 1, Len(new_comps) - 1),
                            initial_slashes)
             ELSE NormComps(Tail(comps), new_comps, initial_slashes)

\* os.path.normpath
NormPath(path) ==
    IF path = <<>> THEN Dot
    ELSE LET lead == IF ~IsAbs(path) THEN 0
                     ELSE IF Len(path) >= 2 /\ path[2] = Sep
                             /\ ~(Len(path) >= 3 /\ path[3] = Sep)
                     THEN 2 ELSE 1
             body == JoinSep(NormComps(SplitSep(path), <<>>, lead))
             out == [i \in 1..lead |-> Sep] \o body
         IN  IF out = <<>> THEN Dot ELSE out

\* os.path.abspath
AbsPath(path) ==
    IF IsAbs(path) THEN NormPath(path) ELSE NormPath(Join2(cwd, path))

(***************************************************************************)
(* python.py: add_dir_to_list                                              *)
(***************************************************************************)
AddDirChoices == {<<Sep, "u">>, <<Sep, "o">>, <<"a">>, <<"b">>}

\* os.path.isdir
IsDir(dir) == dir \in dirs_on_disk

\* line 114-126: the list after add_dir_to_list(dirlist, dir)
AddDirResult(dl, dir) ==
    IF ~dir.some \/ ~IsDir(dir.val) \/ \E i \in DOMAIN dl : dl[i] = dir.val
    THEN dl
    ELSE LET relative == {i \in DOMAIN dl : ~IsAbs(dl[i])}
         IN  IF relative # {}
             THEN Insert(dl, Min(relative), dir.val)
             ELSE Insert(dl, 0, dir.val)

AddDirInit ==
    /\ ExtIdle
    /\ NoSearch
    /\ NoConfig
    /\ SdkIdle
    /\ MACOS = FALSE
    /\ sdk_dirs = {}
    /\ files = {}
    /\ dirs_on_disk \in SUBSET AddDirChoices
    /\ cwd = <<Sep>>
    /\ dirlist \in {l \in Strings(AddDirChoices, MaxDirs) :
                        \A i, j \in DOMAIN l : l[i] = l[j] => i = j}
    /\ srcdir = None
    /\ last = [op |-> "init"]

add_dir_to_list ==
    /\ \E dir \in {None} \cup {Some(d) : d \in AddDirChoices} :
        /\ dirlist' = AddDirResult(dirlist, dir)
        /\ last' = [op |-> "add_dir_to_list", dir |-> dir, before |-> dirlist]
    /\ UNCHANGED <<extVars, config_vars, sdkVars, MACOS, sdk_dirs, files,
                   dirs_on_disk, cwd, srcdir, searchVars>>

AddDirNext == add_dir_to_list

SpecAddDir == AddDirInit /\ [][AddDirNext]_vars

(***************************************************************************)
(* Claim about add_dir_to_list                                             *)
(***************************************************************************)
\* C8: add_dir_to_list leaves the list alone for a dir that is None, is no
\* directory or is in the list already; otherwise the new list is the old
\* one with dir inserted once, old entries in their old order, no relative
\* path after dir, and dir in front when the old list has no relative path.
C8_AddAfterRelativeDirs ==
    last.op = "add_dir_to_list" =>
        LET b == last.before
            dir == last.dir
            skip == \/ ~dir.some
                    \/ dir.val \notin dirs_on_disk
                    \/ \E i \in DOMAIN b : b[i] = dir.val
        IN  IF skip THEN dirlist = b
            ELSE \E k \in 1..(Len(b) + 1) :
                    /\ dirlist = Insert(b, k - 1, dir.val)
                    /\ \A j \in (k + 1)..Len(dirlist) : IsAbs(dirlist[j])
                    /\ (\A i \in DOMAIN b : IsAbs(b[i])) => k = 1

(***************************************************************************)
(* backend.py: PyBuildExt.set_srcdir                                       *)
(***************************************************************************)
PathLexemes == {Sep, "a", "."}

\* the test self.srcdir is None in place of the truth test
SrcdirIsNone(v) == ~v.some

\* line 21: not self.srcdir
SrcdirMissing(v) == ~TruthyStr(v)

SrcdirInit ==
    /\ ExtIdle
    /\ NoSearch
    /\ SdkIdle
    /\ MACOS = FALSE
    /\ sdk_dirs = {}
    /\ files = {}
    /\ dirs_on_disk = {}
    /\ dirlist = <<>>
    /\ config_vars \in [{"srcdir"} -> Strings(PathLexemes, MaxPathLen)]
                           \cup [{"CC"} -> {<<"c", "c">>}]
    /\ cwd \in {<<Sep>>, <<Sep, "w">>}
    /\ srcdir = None
    /\ last = [op |-> "init"]

\* line 19-24
set_srcdir ==
    /\ LET v == get_config_var("srcdir")
       IN  IF SrcdirMissing(v)
           THEN /\ srcdir' = v
                /\ last' = [op |-> "set_srcdir", ret |-> Raised("ValueError")]
           ELSE /\ srcdir' = Some(AbsPath(v.val))
                /\ last' = [op |-> "set_srcdir", ret |-> ReturnedNone]
    /\ UNCHANGED <<extVars, config_vars, sdkVars, MACOS, sdk_dirs, files,
                   dirs_on_disk, cwd, dirlist, searchVars>>

SrcdirNext == set_srcdir

SpecSrcdir == SrcdirInit /\ [][SrcdirNext]_vars

(***************************************************************************)
(* Claim about set_srcdir                                                  *)
(***************************************************************************)
\* an absolute path in normal form: one or two leading separators, then
\* components other than "." and ".." with single separators between them
IsNormalAbs(p) ==
    /\ IsAbs(p)
    /\ ~(Len(p) >= 3 /\ p[2] = Sep /\ p[3] = Sep)
    /\ \A i \in 2..(Len(p) - 1) : ~(p[i] = Sep /\ p[i + 1] = Sep)
    /\ p[Len(p)] = Sep => p \in {<<Sep>>, <<Sep, Sep>>}
    /\ \A i \in DOMAIN SplitSep(p) : SplitSep(p)[i] \notin {Dot, DotDot}

PlainName(p) == p # <<>> /\ \A i \in DOMAIN p : p[i] = "a"

\* C9: set_srcdir() raises ValueError exactly when the srcdir variable is
\* missing or empty, leaving no usable self.srcdir; otherwise it returns and
\* self.srcdir is an absolute path in normal form: the variable itself when
\* that is one already, the working directory joined with it when it is a
\* plain name.
C9_SrcdirOrValueError ==
    last.op = "set_srcdir" =>
        LET missing == "srcdir" \notin DOMAIN config_vars
            empty == ~missing /\ config_vars["srcdir"] = <<>>
        IN  IF missing \/ empty
            THEN /\ last.ret = Raised("ValueError")
                 /\ ~TruthyStr(srcdir)
            ELSE LET var == config_vars["srcdir"]
                 IN  /\ last.ret = ReturnedNone
                     /\ srcdir.some
                     /\ IsNormalAbs(srcdir.val)
                     /\ IsNormalAbs(var) => srcdir.val = var
                     /\ PlainName(var) =>
                            srcdir.val = RStripSep(cwd) \o <<Sep>> \o var

\* a relative srcdir was made absolute against a working directory other
\* than the root
C9_Witness ==
    /\ last.op = "set_srcdir"
    /\ last.ret = ReturnedNone
    /\ config_vars["srcdir"] = <<"a">>
    /\ srcdir = Some(<<Sep, "w", Sep, "a">>)

(***************************************************************************)
(* python2.py: find_file; local.py: the tail of find_library_file          *)
(***************************************************************************)
DirChoices == {<<Sep, "u">>, <<Sep, "u", Sep>>, <<Sep, "o">>}

FileChoices == {<<Sep, "u", Sep, "f">>, <<Sep, "o", Sep, "f">>,
                <<Sep, "s", Sep, "u", Sep, "f">>}

SdkDirChoices == {<<Sep, "u">>}

IsPrefix(r, d) == Len(r) <= Len(d) /\ SubSeq(d, 1, Len(r)) = r

\* is_macosx_sdk_path(path): the path lies inside an SDK path
is_macosx_sdk_path(path) == \E r \in sdk_dirs : IsPrefix(r, path)

\* os.path.exists
Exists(f) == f \in files

\* python2.py line 23-26 and 32-35: the path find_file looks at for dir
LookedUp(dir, fname, sysroot) ==
    IF MACOS /\ is_macosx_sdk_path(dir)
    THEN Join3(sysroot, Tail1(dir), fname)
    ELSE Join2(dir, fname)

\* a scan that goes through the whole list and keeps the last hit
RECURSIVE LastHit(_, _, _, _)
LastHit(dirlst, i, fname, sysroot) ==
    IF i > Len(dirlst) THEN 0
    ELSE LET later == LastHit(dirlst, i + 1, fname, sysroot)
         IN  IF later # 0 THEN later
             ELSE IF Exists(LookedUp(dirlst[i], fname, sysroot)) THEN i
             ELSE 0

\* python2.py line 22-28 and 31-38: the for loop with its early return; the
\* index of the first directory, from i on, whose looked-up path exists, or 0
RECURSIVE FirstHit(_, _, _, _)
FirstHit(dirlst, i, fname, sysroot) ==
    IF i > Len(dirlst) THEN 0
    ELSE IF Exists(LookedUp(dirlst[i], fname, sysroot)) THEN i
    ELSE FirstHit(dirlst, i + 1, fname, sysroot)

\* python2.py line 5-38
FindFileResult(fname, stds, extras, sysroot) ==
    IF FirstHit(stds, 1, fname, sysroot) # 0
    THEN Returned(<<>>)
    ELSE IF FirstHit(extras, 1, fname, sysroot) # 0
    THEN Returned(<<extras[FirstHit(extras, 1, fname, sysroot)]>>)
    ELSE ReturnedNone

\* the platform, the SDK and the file system a search runs on
SearchEnv ==
    /\ ExtIdle
    /\ SdkUnresolved
    /\ \/ /\ MACOS = FALSE
          /\ sdk_dirs = {}
          /\ config_vars = [CFLAGS |-> <<>>]
          /\ default_sysroot = <<Sep>>
       \/ /\ MACOS = TRUE
          /\ sdk_dirs \in SUBSET SdkDirChoices
          /\ config_vars \in [{"CFLAGS"} -> {<<>>, <<ISYSROOT, Sep, "s">>}]
          /\ default_sysroot \in {<<Sep>>, <<Sep, "s">>}
    /\ dirs_on_disk = {}
    /\ cwd = <<Sep>>
    /\ dirlist = <<>>
    /\ srcdir = None
    /\ last = [op |-> "init"]

FindInit ==
    /\ SearchEnv
    /\ files \in SUBSET FileChoices
    /\ filename = <<"f">>
    /\ std_dirs \in Strings(DirChoices, MaxDirs)
    /\ paths \in Strings(DirChoices, MaxDirs)
    /\ result = <<>>

\* the globals macosx_sdk_root() leaves behind when a search calls it on
\* macOS; sdk_returns lists the direct calls only
SdkAfterSearch ==
    IF MACOS
    THEN SdkRootCall(SdkGlobals, config_vars["CFLAGS"], default_sysroot)
    ELSE SdkGlobals

\* python2.py line 15-19, local.py line 1-2: sysroot = macosx_sdk_root() on
\* macOS; elsewhere the name stays unbound and is never read
SysrootAfter(g) == IF MACOS THEN g.returns[Len(g.returns)] ELSE <<>>

SetSdkCache(g) ==
    /\ MACOS_SDK_ROOT' = g.root
    /\ MACOS_SDK_SPECIFIED' = g.specified
    /\ probes' = g.probes
    /\ root_writes' = g.writes
    /\ UNCHANGED sdk_returns

find_file ==
    /\ filename # <<>>
    /\ LET g == SdkAfterSearch
       IN  /\ SetSdkCache(g)
           /\ last' = [op |-> "find_file",
                       ret |-> FindFileResult(filename, std_dirs, paths,
                                              SysrootAfter(g))]
    /\ UNCHANGED <<extVars, config_vars, default_sysroot, pathVars, searchVars>>

FindNext == find_file

SpecFind == FindInit /\ [][FindNext]_vars

(***************************************************************************)
(* Claim about find_file                                                   *)
(***************************************************************************)
AfterFindFile == last.op = "find_file"

\* the file of the last call exists under dir, taken literally
ExistsUnder(dir) == Join2(dir, filename) \in files

\* the same with the SDK rewrite: on macOS a directory inside an SDK path
\* stands for the directory of that name under the SDK root
ExistsUnderSdkAware(dir) ==
    IF MACOS /\ (\E r \in sdk_dirs : IsPrefix(r, dir))
    THEN Join2(Join2(MACOS_SDK_ROOT.val, Tail1(dir)), filename) \in files
    ELSE ExistsUnder(dir)

\* C2 as stated: find_file returns [] when the file exists under a
\* directory of std_dirs, else [d] for the first d of paths the file exists
\* under, else None.
C2_FindFileLiteral ==
    AfterFindFile =>
        LET std == {i \in DOMAIN std_dirs : ExistsUnder(std_dirs[i])}
            extra == {i \in DOMAIN paths : ExistsUnder(paths[i])}
        IN  last.ret = IF std # {} THEN Returned(<<>>)
                       ELSE IF extra # {} THEN Returned(<<paths[Min(extra)]>>)
                       ELSE ReturnedNone

\* C2 amended: the same, a directory inside an SDK path being looked up
\* under the SDK root on macOS.
C2_FindFileSdkAware ==
    AfterFindFile =>
        LET std == {i \in DOMAIN std_dirs :
                        ExistsUnderSdkAware(std_dirs[i])}
            extra == {i \in DOMAIN paths :
                        ExistsUnderSdkAware(paths[i])}
        IN  last.ret = IF std # {} THEN Returned(<<>>)
                       ELSE IF extra # {} THEN Returned(<<paths[Min(extra)]>>)
                       ELSE ReturnedNone

\* on macOS the file was found under the SDK root for the second of two
\* additional directories and in no standard directory
C2_Witness ==
    /\ AfterFindFile
    /\ MACOS
    /\ MACOS_SDK_ROOT = Some(<<Sep, "s">>)
    /\ std_dirs # <<>>
    /\ Len(paths) = 2
    /\ paths[1] = <<Sep, "o">>
    /\ last.ret = Returned(<< <<Sep, "u", Sep>> >>)
    /\ <<Sep, "u", Sep, "f">> \notin files

(***************************************************************************)
(* local.py: the tail of find_library_file, which names the directory list *)
(* entry that holds the file the compiler found                            *)
(***************************************************************************)
ResultChoices == {<<Sep, "u", Sep, "f">>, <<Sep, "o", Sep, "f">>,
                  <<Sep, "s", Sep, "u", Sep, "f">>, <<Sep, "f">>}

\* line 8 and 37: p = p.rstrip(os.sep)
Stripped(p) == RStripSep(p)

\* line 10-31 and 39-44: the two tests one entry p of a list goes through
MatchesDir(p, dirname, sysroot) ==
    \/ /\ MACOS
       /\ is_macosx_sdk_path(p)
       /\ Join2(sysroot, Tail1(p)) = dirname
    \/ p = dirname

\* line 6-31 and 35-44: the for loop with its early return; the index of
\* the first entry, from i on, that matches after stripping, or 0
RECURSIVE FirstMatch(_, _, _, _)
FirstMatch(dirlst, i, dirname, sysroot) ==
    IF i > Len(dirlst) THEN 0
    ELSE IF MatchesDir(Stripped(dirlst[i]), dirname, sysroot) THEN i
    ELSE FirstMatch(dirlst, i + 1, dirname, sysroot)

\* the additional directories scanned before the standard ones
LibraryDirPathsFirst(found, stds, extras, sysroot) ==
    LET dirname == Dirname(found)
    IN  IF FirstMatch(extras, 1, dirname, sysroot) # 0
        THEN Returned(<<Stripped(extras[FirstMatch(extras, 1, dirname, sysroot)])>>)
        ELSE IF FirstMatch(stds, 1, dirname, sysroot) # 0
        THEN Returned(<<>>)
        ELSE Raised("AssertionError")

\* line 1-46
LibraryDirResult(found, stds, extras, sysroot) ==
    LET dirname == Dirname(found)
    IN  IF FirstMatch(stds, 1, dirname, sysroot) # 0
        THEN Returned(<<>>)
        ELSE IF FirstMatch(extras, 1, dirname, sysroot) # 0
        THEN Returned(<<Stripped(extras[FirstMatch(extras, 1, dirname, sysroot)])>>)
        ELSE Raised("AssertionError")

LibInit ==
    /\ SearchEnv
    /\ files = {}
    /\ filename = <<>>
    /\ std_dirs \in Strings(DirChoices, MaxDirs)
    /\ paths \in Strings(DirChoices, MaxDirs)
    /\ result \in ResultChoices

find_library_file ==
    /\ result # <<>>
    /\ LET g == SdkAfterSearch
       IN  /\ SetSdkCache(g)
           /\ last' = [op |-> "find_library_file",
                       ret |-> LibraryDirResult(result, std_dirs, paths,
                                                SysrootAfter(g))]
    /\ UNCHANGED <<extVars, config_vars, default_sysroot, pathVars, searchVars>>

LibNext == find_library_file

SpecLib == LibInit /\ [][LibNext]_vars

(***************************************************************************)
(* Claim about the tail of find_library_file                               *)
(***************************************************************************)
AfterLibraryDir == last.op = "find_library_file"

\* the directory D that holds the found file: the found path up to its last
\* separator
ContainingDir ==
    LET cut == Max({k \in DOMAIN result : result[k] = Sep})
    IN  IF cut = 1 THEN <<Sep>> ELSE SubSeq(result, 1, cut - 1)

\* a path without its trailing separators
NoTrailingSep(p, q) ==
    /\ IsPrefix(q, p)
    /\ \A k \in (Len(q) + 1)..Len(p) : p[k] = Sep
    /\ q = <<>> \/ q[Len(q)] # Sep

\* the list entry d equals D once its trailing separators are gone, or, on
\* macOS for an entry inside an SDK path, once it is moved under the SDK root
EqualsContainingDir(d) ==
    \E q \in {SubSeq(d, 1, n) : n \in 0..Len(d)} :
        /\ NoTrailingSep(d, q)
        /\ \/ q = ContainingDir
           \/ /\ MACOS
              /\ \E r \in sdk_dirs : IsPrefix(r, q)
              /\ Join2(MACOS_SDK_ROOT.val, Tail1(q)) = ContainingDir

StdMatches == {i \in DOMAIN std_dirs : EqualsContainingDir(std_dirs[i])}

PathsMatches == {i \in DOMAIN paths : EqualsContainingDir(paths[i])}

\* C7 as stated: [] when D equals a directory of std_dirs, else a list
\* holding the first directory of paths that equals D, else the assertion
\* fails; a directory of both lists counts as standard.
C7_LibraryDirAsGiven ==
    AfterLibraryDir =>
        last.ret = IF StdMatches # {} THEN Returned(<<>>)
                   ELSE IF PathsMatches # {}
                   THEN Returned(<<paths[Min(PathsMatches)]>>)
                   ELSE Raised("AssertionError")

\* C7 amended: the same, the list holding the first matching directory of
\* paths without its trailing separators.
C7_LibraryDirStripped ==
    AfterLibraryDir =>
        /\ StdMatches # {} => last.ret = Returned(<<>>)
        /\ (StdMatches = {} /\ PathsMatches # {}) =>
                /\ last.ret.kind = "return"
                /\ Len(last.ret.val) = 1
                /\ NoTrailingSep(paths[Min(PathsMatches)], last.ret.val[1])
        /\ (StdMatches = {} /\ PathsMatches = {}) <=>
                last.ret = Raised("AssertionError")

\* on macOS the found file lies under the SDK root, in the second of two
\* additional directories, which is written with a trailing separator
C7_Witness ==
    /\ AfterLibraryDir
    /\ MACOS
    /\ MACOS_SDK_ROOT = Some(<<Sep, "s">>)
    /\ result = <<Sep, "s", Sep, "u", Sep, "f">>
    /\ std_dirs = << <<Sep, "o">> >>
    /\ paths = << <<Sep, "o">>, <<Sep, "u", Sep>> >>
    /\ last.ret = Returned(<< <<Sep, "u">> >>)

====
